---- MODULE Spec2Model ----
(***************************************************************************)
(* The live voice session of src/components/VideoView.tsx (component       *)
(* LiveView, lines 194-386): React state, the five refs, the closures of   *)
(* every startSession call (audio contexts, microphone stream, remote      *)
(* channel, session promise, script processor), the onmessage handlers     *)
(* suspended at their decode, and the playback source nodes; the view the   *)
(* application displays (App, src/unnamed/part_004); and the state of the   *)
(* image, chat and video components.                                        *)
(***************************************************************************)
EXTENDS Integers, Sequences, FiniteSets, TLC

VARIABLES
    isActive,           \* useState(false), line 199
    isConnecting,       \* useState(false), line 200
    transcriptions,     \* useState([]), line 201: the turn history
    sessionRef,         \* line 203: 0 is null, k is the session of start call k
    audioContextRef,    \* line 204: 0 is null, k is the output context of call k
    nextStartTimeRef,   \* line 205: the playback cursor
    sourcesRef,         \* line 206: the active set (ids of source nodes)
    transcriptionRef,   \* line 207: the two transcript buffers
    calls,              \* one record per startSession call: its closure and the
                        \* external objects it created
    pending,            \* onmessage handlers suspended at `await decodeAudioData`
    nodes,              \* the AudioBufferSourceNodes created so far, by id
    currentView,        \* App, part_004 line 10: the view on display
    image,              \* ImageView.tsx lines 7-12: state of the image view and
                        \* what its key checks and its request are doing
    chat,               \* part_007 lines 6-8: state of the chat view and its
                        \* request
    video               \* VideoView.tsx lines 7-11: state of the video view and
                        \* its generation

vars == <<isActive, isConnecting, transcriptions, sessionRef, audioContextRef,
          nextStartTimeRef, sourcesRef, transcriptionRef, calls, pending, nodes,
          currentView, image, chat, video>>

\* What the handlers and callbacks of LiveView neither read nor write.
others == <<currentView, image, chat, video>>

\* The state of LiveView: what the other components neither read nor write.
live == <<isActive, isConnecting, transcriptions, sessionRef, audioContextRef,
          nextStartTimeRef, sourcesRef, transcriptionRef, calls, pending, nodes>>

\* ---------------------------------------------------------------- bounds
MaxStarts == 2      \* startSession calls (Spec, SpecTurns)
MaxFrames == 1      \* captured frames per script processor (Spec)
PlayStarts == 1     \* startSession calls (SpecPlay)
PlayMsgs == 2       \* inbound messages over all channels (SpecPlay)
TurnMsgs == 3       \* inbound messages over all channels (SpecTurns)
CaptureFrames == 2  \* captured frames per script processor (SpecCapture)
ClockMsgs == 2      \* inbound messages over all channels (SpecClock)
MaxClock == 2       \* ticks of an output context's clock (SpecClock)
LifeStarts == 3     \* startSession calls (SpecLife)
MaxFieldMsgs == 2   \* inbound messages over all channels (SpecFields)
SubSteps == 4       \* input samples are multiples of 1/(SubSteps * Scale)
NearSteps == 6      \* input samples lie within NearSteps such steps of 0, 1, -1
CodecFrames == 2    \* captured one-sample frames (SpecCodec)
ViewFrames == 1     \* captured frames per script processor (SpecView)
ViewMsgs == 1       \* inbound messages over all channels (SpecView)
MaxChecks == 1      \* checkKey calls waiting for their answer (SpecImage)
MaxImageRequests == 2 \* generateContent calls (SpecImage)
MaxChatRequests == 2 \* sendMessageStream calls (SpecChat)
MaxChunks == 2      \* chunks over all response streams (SpecChat)
MaxVideoRequests == 2 \* generateVideos calls (SpecVideo)
MaxPolls == 2       \* getVideosOperation calls of one generation that find the
                    \* operation not done (SpecVideo)
MaxChatClock == 2   \* Date.now() as far as the model follows it (SpecChat)

\* ---------------------------------------------------------------- helpers
Max(a, b) == IF a >= b THEN a ELSE b

Ids == 1..Len(calls)

NoText == <<>>

\* An inbound LiveServerMessage, by the five fields onmessage reads.  audio is
\* 0 when the message carries no inline audio, Corrupt for a payload the decode
\* rejects, and otherwise the duration of the decoded buffer.
Corrupt == -1

Msg(a, i, u, m, t) ==
    [audio |-> a, interrupted |-> i, inputTranscription |-> u,
     outputTranscription |-> m, turnComplete |-> t]

\* A transcript text is a sequence of tokens.  The fragments sent on channel k
\* are the one-token texts <<"u", k>> and <<"m", k>>, so that the text of one
\* session can be told from the text of another.
UserFrag(k) == <<<<"u", k>>>>
ModelFrag(k) == <<<<"m", k>>>>

\* The messages of channel k that carry no audio.
TextMsgs(k) ==
    {Msg(0, FALSE, UserFrag(k), NoText, FALSE),
     Msg(0, FALSE, NoText, ModelFrag(k), FALSE),
     Msg(0, FALSE, NoText, NoText, TRUE),
     Msg(0, FALSE, NoText, ModelFrag(k), TRUE)}

\* The messages that carry audio or the interruption flag and no text.
AudioMsgs ==
    {Msg(1, FALSE, NoText, NoText, FALSE),
     Msg(2, FALSE, NoText, NoText, FALSE),
     Msg(0, TRUE, NoText, NoText, FALSE),
     Msg(1, TRUE, NoText, NoText, FALSE)}

\* Fragments that name the message they came in: the n-th message of channel k.
UserFragAt(k, n) == <<<<"u", k, n>>>>
ModelFragAt(k, n) == <<<<"m", k, n>>>>

\* The n-th message of channel k when it carries several fields at once, or a
\* single fragment.
FieldMsgs(k, n) ==
    {Msg(1, FALSE, UserFragAt(k, n), NoText, FALSE),
     Msg(0, FALSE, UserFragAt(k, n), NoText, FALSE),
     Msg(0, FALSE, NoText, ModelFragAt(k, n), TRUE),
     Msg(1, TRUE, NoText, ModelFragAt(k, n), TRUE),
     Msg(Corrupt, TRUE, UserFragAt(k, n), NoText, TRUE)}

\* The messages the remote side may send on channel k.
Msgs(k) ==
    TextMsgs(k) \cup AudioMsgs \cup {Msg(Corrupt, FALSE, NoText, NoText, FALSE)}

\* The closure of a startSession call right after lines 227-229.
NewCall ==
    [pc |-> "getUserMedia",     \* where startSession is suspended
     inCtx |-> "running",       \* inputAudioContext
     outCtx |-> "running",      \* outputAudioContext
     ctxCloses |-> 0,           \* close() calls on outputAudioContext
     stream |-> FALSE,          \* the microphone MediaStream is live
     chan |-> "none",           \* the remote channel
     closeCalls |-> 0,          \* close() calls on the session
     promise |-> "none",        \* sessionPromise
     capture |-> FALSE,         \* the script processor is wired
     now |-> 0,                 \* outputAudioContext.currentTime
     arrived |-> 0,             \* inbound messages handed to onmessage
     interruptedAt |-> 0,       \* arrival index of the latest message whose
                                \* interruption flag was handled (0: none)
     scheduledSince |-> 0,      \* source nodes started since that interruption
                                \* (since onopen when there was none)
     captured |-> 0,            \* audioprocess events
     queued |-> <<>>,           \* frames waiting in sessionPromise.then
     sent |-> <<>>]             \* frames passed to sendRealtimeInput

LiveInit ==
    /\ isActive = FALSE
    /\ isConnecting = FALSE
    /\ transcriptions = <<>>
    /\ sessionRef = 0
    /\ audioContextRef = 0
    /\ nextStartTimeRef = 0
    /\ sourcesRef = {}
    /\ transcriptionRef = [user |-> NoText, model |-> NoText]
    /\ calls = <<>>
    /\ pending = {}
    /\ nodes = [x \in {} |-> 0]

\* ImageView.tsx lines 7-12, with what surrounds the component: selected is
\* what window.aistudio.hasSelectedApiKey() answers, checks counts the checkKey
\* calls waiting for that answer, dialog is an openSelectKey() call not yet
\* settled, request is the generateContent call of handleGenerate.
ImageInit ==
    [prompt |-> "", results |-> <<>>, isGenerating |-> FALSE, hasKey |-> FALSE,
     errorType |-> "none", selected |-> FALSE, checks |-> 0, dialog |-> FALSE,
     request |-> "none", started |-> 0]

\* part_007 lines 6-8, with the handleSend call in progress: now is Date.now(),
\* phase is where handleSend is suspended, aiMessageId and fullAiResponse are
\* its locals (lines 49-50), sent counts the sendMessageStream calls, chunks
\* the chunks delivered by all streams, and received holds the chunk texts the
\* current stream has delivered, in arrival order.
ChatInit ==
    [messages |-> <<>>, input |-> "", isLoading |-> FALSE, now |-> 1,
     phase |-> "none", aiMessageId |-> 0, fullAiResponse |-> "",
     sent |-> 0, chunks |-> 0, received |-> <<>>]

\* VideoView.tsx lines 7-11, with the handleGenerate call in progress: phase is
\* where it is suspended, polls counts its getVideosOperation calls, msgIdx is
\* its local (line 53), alerts counts the alert() calls, started the
\* generateVideos calls.
VideoInit ==
    [prompt |-> "", isGenerating |-> FALSE, hasKey |-> FALSE, results |-> <<>>,
     statusMessage |-> "", phase |-> "none", polls |-> 0, msgIdx |-> 0,
     alerts |-> 0, started |-> 0, checked |-> FALSE]

\* LiveView is on display, as it is from its construction (part_004 line 51)
\* until the view is switched; the other components are as their useState
\* calls leave them.
Init ==
    /\ LiveInit
    /\ currentView = "LIVE"
    /\ image = ImageInit
    /\ chat = ChatInit
    /\ video = VideoInit

\* ---------------------------------------------------------------- stopSession
\* session.close(): counted; a channel still up starts closing and its onclose
\* callback follows later.
closeSession(cs, k) ==
    [cs EXCEPT ![k].closeCalls = @ + 1,
               ![k].chan = IF @ \in {"connecting", "open", "failed"}
                           THEN "closing" ELSE @]

\* outputAudioContext.close(): counted; the context stops rendering.
closeContext(cs, k) ==
    [cs EXCEPT ![k].ctxCloses = @ + 1, ![k].outCtx = "closed"]

\* The part of the state stopSession reads and writes.
Program ==
    [sessionRef |-> sessionRef, audioContextRef |-> audioContextRef,
     isActive |-> isActive, nextStartTimeRef |-> nextStartTimeRef,
     calls |-> calls]

\* stopSession with the two `ref.current = null` lines missing.
stopSessionKeepRefs(s) ==
    LET c1 == IF s.sessionRef # 0
              THEN closeSession(s.calls, s.sessionRef) ELSE s.calls
        c2 == IF s.audioContextRef # 0
              THEN closeContext(c1, s.audioContextRef) ELSE c1
    IN  [s EXCEPT !.isActive = FALSE, !.nextStartTimeRef = 0, !.calls = c2]

\* stopSession with line 212 (`sessionRef.current = null`) missing.
stopSessionKeepSession(s) ==
    LET c1 == IF s.sessionRef # 0
              THEN closeSession(s.calls, s.sessionRef) ELSE s.calls
        c2 == IF s.audioContextRef # 0
              THEN closeContext(c1, s.audioContextRef) ELSE c1
    IN  [s EXCEPT !.audioContextRef = 0, !.isActive = FALSE,
                  !.nextStartTimeRef = 0, !.calls = c2]

\* stopSession, lines 209-220.
stopSession(s) ==
    LET c1 == IF s.sessionRef # 0
              THEN closeSession(s.calls, s.sessionRef) ELSE s.calls
        c2 == IF s.audioContextRef # 0
              THEN closeContext(c1, s.audioContextRef) ELSE c1
    IN  [sessionRef |-> 0, audioContextRef |-> 0, isActive |-> FALSE,
         nextStartTimeRef |-> 0, calls |-> c2]

\* The state after stopSession has run on the current state with closures cs.
RunStop(cs) ==
    LET t == stopSession([Program EXCEPT !.calls = cs])
    IN  /\ sessionRef' = t.sessionRef
        /\ audioContextRef' = t.audioContextRef
        /\ isActive' = t.isActive
        /\ nextStartTimeRef' = t.nextStartTimeRef
        /\ calls' = t.calls

\* ---------------------------------------------------------------- onmessage
\* The part of the state the onmessage handler reads and writes.
Playback ==
    [nextStartTimeRef |-> nextStartTimeRef, sourcesRef |-> sourcesRef,
     nodes |-> nodes, transcriptionRef |-> transcriptionRef,
     transcriptions |-> transcriptions]

\* source.stop(): a started node is cut; a node already over stays as it is.
stopNode(n) == IF n.st = "started" THEN [n EXCEPT !.st = "stopped"] ELSE n

\* scheduleSource with line 272 (the cursor advance) missing.
scheduleSourceKeepCursor(p, h) ==
    LET id == <<h.sid, h.seq>>
        n == [start |-> p.nextStartTimeRef, dur |-> h.msg.audio, st |-> "started"]
    IN  [p EXCEPT !.nodes = (id :> n) @@ @,
                  !.sourcesRef = @ \cup {id}]

\* Lines 268-274, after the decode of handler h has resolved with a buffer.
scheduleSource(p, h) ==
    LET id == <<h.sid, h.seq>>
        n == [start |-> p.nextStartTimeRef, dur |-> h.msg.audio, st |-> "started"]
    IN  [p EXCEPT !.nodes = (id :> n) @@ @,
                  !.nextStartTimeRef = @ + h.msg.audio,
                  !.sourcesRef = @ \cup {id}]

\* The interrupted branch without the cursor reset.
interruptedBranchKeepCursor(p, m) ==
    IF m.interrupted
    THEN [p EXCEPT !.nodes = [id \in DOMAIN p.nodes |->
                                 IF id \in p.sourcesRef
                                 THEN stopNode(p.nodes[id]) ELSE p.nodes[id]],
                   !.sourcesRef = {}]
    ELSE p

\* Lines 277-281.
interruptedBranch(p, m) ==
    IF m.interrupted
    THEN [p EXCEPT !.nodes = [id \in DOMAIN p.nodes |->
                                 IF id \in p.sourcesRef
                                 THEN stopNode(p.nodes[id]) ELSE p.nodes[id]],
                   !.sourcesRef = {},
                   !.nextStartTimeRef = 0]
    ELSE p

\* Lines 283-288.
transcriptionBranch(p, m) ==
    [p EXCEPT !.transcriptionRef =
        [user |-> @.user \o m.inputTranscription,
         model |-> @.model \o m.outputTranscription]]

\* The turnComplete branch with `user && model` in place of `user || model`.
turnCompleteBranchBoth(p, m) ==
    IF m.turnComplete
    THEN LET user == p.transcriptionRef.user
             model == p.transcriptionRef.model
         IN  [p EXCEPT !.transcriptions =
                          IF user # NoText /\ model # NoText
                          THEN @ \o <<[role |-> "user", text |-> user],
                                      [role |-> "model", text |-> model]>>
                          ELSE @,
                       !.transcriptionRef = [user |-> NoText, model |-> NoText]]
    ELSE p

\* The turnComplete branch with the two entries of line 293 put in front of
\* the history, model entry first.
turnCompleteBranchPrepend(p, m) ==
    IF m.turnComplete
    THEN LET user == p.transcriptionRef.user
             model == p.transcriptionRef.model
         IN  [p EXCEPT !.transcriptions =
                          IF user # NoText \/ model # NoText
                          THEN <<[role |-> "model", text |-> model],
                                 [role |-> "user", text |-> user]>> \o @
                          ELSE @,
                       !.transcriptionRef = [user |-> NoText, model |-> NoText]]
    ELSE p

\* Lines 289-296.
turnCompleteBranch(p, m) ==
    IF m.turnComplete
    THEN LET user == p.transcriptionRef.user
             model == p.transcriptionRef.model
         IN  [p EXCEPT !.transcriptions =
                          IF user # NoText \/ model # NoText
                          THEN @ \o <<[role |-> "user", text |-> user],
                                      [role |-> "model", text |-> model]>>
                          ELSE @,
                       !.transcriptionRef = [user |-> NoText, model |-> NoText]]
    ELSE p

\* afterAudio with the turnComplete branch moved in front of the two
\* transcription branches.
afterAudioTurnFirst(p, m) ==
    transcriptionBranch(turnCompleteBranch(interruptedBranch(p, m), m), m)

\* Lines 277-296: what the handler does once it is past the audio branch.
afterAudio(p, m) ==
    turnCompleteBranch(transcriptionBranch(interruptedBranch(p, m), m), m)

SetPlayback(p) ==
    /\ nextStartTimeRef' = p.nextStartTimeRef
    /\ sourcesRef' = p.sourcesRef
    /\ nodes' = p.nodes
    /\ transcriptionRef' = p.transcriptionRef
    /\ transcriptions' = p.transcriptions

\* ---------------------------------------------------------------- actions
RECURSIVE SumArrived(_, _)
SumArrived(cs, n) == IF n = 0 THEN 0 ELSE cs[n].arrived + SumArrived(cs, n - 1)

\* The number of inbound messages handed to onmessage so far.
Arrived == SumArrived(calls, Len(calls))

\* startSession reachable from the button while a session is active (the
\* onClick of line 340 without its isActive test).
ClickStartWhileActive ==
    /\ ~isConnecting
    /\ isConnecting' = TRUE
    /\ calls' = Append(calls, NewCall)
    /\ audioContextRef' = Len(calls) + 1
    /\ UNCHANGED <<isActive, transcriptions, sessionRef, nextStartTimeRef,
                   sourcesRef, transcriptionRef, pending, nodes>>
    /\ UNCHANGED others

\* The button of lines 339-341 while it shows "Start Live": startSession up to
\* its first await (lines 223-231).
ClickStart ==
    /\ ~isConnecting /\ ~isActive
    /\ isConnecting' = TRUE
    /\ calls' = Append(calls, NewCall)
    /\ audioContextRef' = Len(calls) + 1
    /\ UNCHANGED <<isActive, transcriptions, sessionRef, nextStartTimeRef,
                   sourcesRef, transcriptionRef, pending, nodes>>
    /\ UNCHANGED others

\* GetUserMediaOk with the capture graph of lines 240-261 wired as soon as the
\* stream is there, not in onopen.
GetUserMediaOkWiresCapture(k) ==
    /\ calls[k].pc = "getUserMedia"
    /\ calls' = [calls EXCEPT ![k].pc = "connecting", ![k].stream = TRUE,
                              ![k].chan = "connecting", ![k].promise = "pending",
                              ![k].capture = TRUE]
    /\ UNCHANGED <<isActive, isConnecting, transcriptions, sessionRef,
                   audioContextRef, nextStartTimeRef, sourcesRef,
                   transcriptionRef, pending, nodes>>
    /\ UNCHANGED others

\* getUserMedia resolves: ai.live.connect is called and startSession awaits
\* sessionPromise (lines 231-311).
GetUserMediaOk(k) ==
    /\ calls[k].pc = "getUserMedia"
    /\ calls' = [calls EXCEPT ![k].pc = "connecting", ![k].stream = TRUE,
                              ![k].chan = "connecting", ![k].promise = "pending"]
    /\ UNCHANGED <<isActive, isConnecting, transcriptions, sessionRef,
                   audioContextRef, nextStartTimeRef, sourcesRef,
                   transcriptionRef, pending, nodes>>
    /\ UNCHANGED others

\* getUserMedia rejects: the catch block, lines 313-317.
GetUserMediaFail(k) ==
    /\ calls[k].pc = "getUserMedia"
    /\ calls' = [calls EXCEPT ![k].pc = "failed"]
    /\ isConnecting' = FALSE
    /\ UNCHANGED <<isActive, transcriptions, sessionRef, audioContextRef,
                   nextStartTimeRef, sourcesRef, transcriptionRef, pending, nodes>>
    /\ UNCHANGED others

\* The onopen callback, lines 236-262.
OnOpen(k) ==
    /\ calls[k].chan = "connecting"
    /\ isConnecting' = FALSE
    /\ isActive' = TRUE
    /\ calls' = [calls EXCEPT ![k].chan = "open", ![k].capture = TRUE]
    /\ UNCHANGED <<transcriptions, sessionRef, audioContextRef, nextStartTimeRef,
                   sourcesRef, transcriptionRef, pending, nodes>>
    /\ UNCHANGED others

\* sessionPromise resolves: line 311 stores the session, then the callbacks
\* registered by line 255 send the frames captured meanwhile, in order.
PromiseResolve(k) ==
    /\ calls[k].promise = "pending"
    /\ calls[k].capture
    /\ sessionRef' = k
    /\ calls' = [calls EXCEPT ![k].promise = "resolved", ![k].pc = "done",
                              ![k].sent = @ \o calls[k].queued,
                              ![k].queued = <<>>]
    /\ UNCHANGED <<isActive, isConnecting, transcriptions, audioContextRef,
                   nextStartTimeRef, sourcesRef, transcriptionRef, pending, nodes>>
    /\ UNCHANGED others

\* sessionPromise rejects before the channel opened: the catch block, lines
\* 313-317.
ConnectReject(k) ==
    /\ calls[k].promise = "pending"
    /\ ~calls[k].capture
    /\ calls[k].chan \in {"connecting", "failed", "closed"}
    /\ isConnecting' = FALSE
    /\ calls' = [calls EXCEPT ![k].promise = "rejected", ![k].pc = "failed",
                              ![k].chan = IF @ = "connecting" THEN "closed" ELSE @]
    /\ UNCHANGED <<isActive, transcriptions, sessionRef, audioContextRef,
                   nextStartTimeRef, sourcesRef, transcriptionRef, pending, nodes>>
    /\ UNCHANGED others

\* onclose followed by a new ai.live.connect on the same call (an automatic
\* reconnect, which line 299 does not have).
OnCloseReconnects(k) ==
    /\ calls[k].chan \in {"connecting", "open", "failed", "closing"}
    /\ RunStop([calls EXCEPT ![k].chan = "connecting"])
    /\ UNCHANGED <<isConnecting, transcriptions, sourcesRef, transcriptionRef,
                   pending, nodes>>
    /\ UNCHANGED others

\* The button of lines 339-341 while it shows "End": stopSession.
ClickStop ==
    /\ ~isConnecting /\ isActive
    /\ RunStop(calls)
    /\ UNCHANGED <<isConnecting, transcriptions, sourcesRef, transcriptionRef,
                   pending, nodes>>
    /\ UNCHANGED others

\* The onclose callback, line 299: the channel is down (closed by the remote
\* side, after a transport error, or after session.close()) and stopSession runs.
OnClose(k) ==
    /\ calls[k].chan \in {"connecting", "open", "failed", "closing"}
    /\ RunStop([calls EXCEPT ![k].chan = "closed"])
    /\ UNCHANGED <<isConnecting, transcriptions, sourcesRef, transcriptionRef,
                   pending, nodes>>
    /\ UNCHANGED others

\* The onerror callback, line 298: the channel has failed; the callback logs.
OnError(k) ==
    /\ calls[k].chan \in {"connecting", "open"}
    /\ calls' = [calls EXCEPT ![k].chan = "failed"]
    /\ UNCHANGED <<isActive, isConnecting, transcriptions, sessionRef,
                   audioContextRef, nextStartTimeRef, sourcesRef,
                   transcriptionRef, pending, nodes>>
    /\ UNCHANGED others

\* onmessage with line 266 taking the clock alone (no Math.max with the cursor).
OnMessageClockOnly(k, m) ==
    /\ calls[k].chan = "open"
    /\ calls' = [calls EXCEPT
           ![k].arrived = @ + 1,
           ![k].interruptedAt = IF m.audio = 0 /\ m.interrupted
                                THEN calls[k].arrived + 1 ELSE @,
           ![k].scheduledSince = IF m.audio = 0 /\ m.interrupted THEN 0 ELSE @]
    /\ IF m.audio # 0
       THEN /\ nextStartTimeRef' = calls[k].now
            /\ pending' = pending \cup
                   {[sid |-> k, seq |-> calls[k].arrived + 1, msg |-> m]}
            /\ UNCHANGED <<sourcesRef, nodes, transcriptionRef, transcriptions>>
       ELSE /\ SetPlayback(afterAudio(Playback, m))
            /\ UNCHANGED pending
    /\ UNCHANGED <<isActive, isConnecting, sessionRef, audioContextRef>>
    /\ UNCHANGED others

\* The onmessage callback, lines 263-297, up to its await when the message
\* carries audio (lines 264-267), and to its end when it carries none.
OnMessage(k, m) ==
    /\ calls[k].chan = "open"
    /\ calls' = [calls EXCEPT
           ![k].arrived = @ + 1,
           ![k].interruptedAt = IF m.audio = 0 /\ m.interrupted
                                THEN calls[k].arrived + 1 ELSE @,
           ![k].scheduledSince = IF m.audio = 0 /\ m.interrupted THEN 0 ELSE @]
    /\ IF m.audio # 0
       THEN /\ nextStartTimeRef' = Max(nextStartTimeRef, calls[k].now)
            /\ pending' = pending \cup
                   {[sid |-> k, seq |-> calls[k].arrived + 1, msg |-> m]}
            /\ UNCHANGED <<sourcesRef, nodes, transcriptionRef, transcriptions>>
       ELSE /\ SetPlayback(afterAudio(Playback, m))
            /\ UNCHANGED pending
    /\ UNCHANGED <<isActive, isConnecting, sessionRef, audioContextRef>>
    /\ UNCHANGED others

\* The decode of handler h resolves: the rest of onmessage, lines 268-296.
DecodeDone(h) ==
    /\ h \in pending
    /\ h.msg.audio > 0
    /\ pending' = pending \ {h}
    /\ SetPlayback(afterAudio(scheduleSource(Playback, h), h.msg))
    /\ calls' = [calls EXCEPT
           ![h.sid].interruptedAt = IF h.msg.interrupted THEN h.seq ELSE @,
           ![h.sid].scheduledSince = IF h.msg.interrupted THEN 0 ELSE @ + 1]
    /\ UNCHANGED <<isActive, isConnecting, sessionRef, audioContextRef>>
    /\ UNCHANGED others

\* The decode of handler h rejects: the handler ends at line 267.
DecodeFail(h) ==
    /\ h \in pending
    /\ h.msg.audio = Corrupt
    /\ pending' = pending \ {h}
    /\ UNCHANGED <<isActive, isConnecting, transcriptions, sessionRef,
                   audioContextRef, nextStartTimeRef, sourcesRef,
                   transcriptionRef, calls, nodes>>
    /\ UNCHANGED others

\* The ended event of a source node, line 274: its playback is over (it reached
\* its end, or stop() cut it) on a context that still renders.  The handler
\* drops the node from the active set; nothing refers to the node afterwards.
OnEnded(id) ==
    /\ id \in DOMAIN nodes
    /\ calls[id[1]].outCtx = "running"
    /\ \/ nodes[id].st = "stopped"
       \/ /\ nodes[id].st = "started"
          /\ calls[id[1]].now >= nodes[id].start + nodes[id].dur
    /\ nodes' = [n \in DOMAIN nodes \ {id} |-> nodes[n]]
    /\ sourcesRef' = sourcesRef \ {id}
    /\ UNCHANGED <<isActive, isConnecting, transcriptions, sessionRef,
                   audioContextRef, nextStartTimeRef, transcriptionRef, calls,
                   pending>>
    /\ UNCHANGED others

\* The blob made of the n-th frame of a script processor, lines 250-253.
pcmBlob(n) == [data |-> n, mimeType |-> "audio/pcm;rate=16000"]

\* onaudioprocess sending through the session only if it is already there
\* (no sessionPromise.then): a frame captured before is dropped.
AudioProcessNoQueue(k) ==
    /\ calls[k].capture
    /\ LET f == pcmBlob(calls[k].captured + 1)
       IN  calls' = [calls EXCEPT
                ![k].captured = @ + 1,
                ![k].sent = IF calls[k].promise = "resolved"
                            THEN Append(@, f) ELSE @]
    /\ UNCHANGED <<isActive, isConnecting, transcriptions, sessionRef,
                   audioContextRef, nextStartTimeRef, sourcesRef,
                   transcriptionRef, pending, nodes>>
    /\ UNCHANGED others

\* ------------------------------------------------------- sample conversion
\* The factor of line 248.
Scale == 32768

\* The number of values of an Int16Array element (line 246).
Int16Range == 65536

Abs(i) == IF i >= 0 THEN i ELSE -i

\* A sample is written n for the number n / (SubSteps * Scale).  The samples of
\* [-1.0, 1.0] used as input: those around 0, 1.0 and -1.0.
One == SubSteps * Scale

Samples ==
    (-NearSteps..NearSteps) \cup ((One - NearSteps)..One)
        \cup ((-One)..(NearSteps - One))

\* The integral part of n / d (d > 0), fraction discarded.
TruncDiv(n, d) == IF n >= 0 THEN n \div d ELSE -((-n) \div d)

\* The conversion an Int16Array element applies to a finite number x = n / d
\* that is stored in it (ToInt16): the fraction is discarded and the integer
\* wraps modulo 2^16 into -32768..32767.
ToInt16(n, d) ==
    ((TruncDiv(n, d) + Int16Range \div 2) % Int16Range) - Int16Range \div 2

\* Line 248, `int16[i] = inputData[i] * 32768`, for sample n: the product is
\* n / SubSteps.
int16Of(n) == ToInt16(n, SubSteps)

\* `new Uint8Array(int16.buffer)` (line 251): the two bytes of every element,
\* two's complement, low byte first.
RECURSIVE bytesOf(_)
bytesOf(int16) ==
    IF int16 = <<>> THEN <<>>
    ELSE LET u == Head(int16) % Int16Range
         IN  <<u % 256, u \div 256>> \o bytesOf(Tail(int16))

\* The padding character of base64, beside the 64 digits 0..63.
Pad == 64

\* encode of utils/audioUtils.ts: the base64 text of a byte sequence, as the
\* sequence of its digits.
RECURSIVE encode(_)
encode(bytes) ==
    IF bytes = <<>> THEN <<>>
    ELSE IF Len(bytes) = 1
    THEN <<bytes[1] \div 4, (bytes[1] % 4) * 16, Pad, Pad>>
    ELSE IF Len(bytes) = 2
    THEN <<bytes[1] \div 4, (bytes[1] % 4) * 16 + bytes[2] \div 16,
           (bytes[2] % 16) * 4, Pad>>
    ELSE <<bytes[1] \div 4, (bytes[1] % 4) * 16 + bytes[2] \div 16,
           (bytes[2] % 16) * 4 + bytes[3] \div 64, bytes[3] % 64>>
         \o encode(SubSeq(bytes, 4, Len(bytes)))

\* The blob of lines 250-253 for a frame that holds the samples ns.
sampleBlob(ns) ==
    [data |-> encode(bytesOf([i \in 1..Len(ns) |-> int16Of(ns[i])])),
     mimeType |-> "audio/pcm;rate=16000"]

\* The audioprocess event of lines 243-258 for a frame that holds the one
\* sample n.
CaptureSample(k, n) ==
    /\ calls[k].capture
    /\ LET f == sampleBlob(<<n>>)
       IN  calls' = [calls EXCEPT
                ![k].captured = @ + 1,
                ![k].sent = IF calls[k].promise = "resolved"
                            THEN Append(@, f) ELSE @,
                ![k].queued = IF calls[k].promise = "pending"
                              THEN Append(@, f) ELSE @]
    /\ UNCHANGED <<isActive, isConnecting, transcriptions, sessionRef,
                   audioContextRef, nextStartTimeRef, sourcesRef,
                   transcriptionRef, pending, nodes>>
    /\ UNCHANGED others

\* The audioprocess event of the script processor, lines 243-258: the frame is
\* sent once sessionPromise has resolved.
AudioProcess(k) ==
    /\ calls[k].capture
    /\ LET f == pcmBlob(calls[k].captured + 1)
       IN  calls' = [calls EXCEPT
                ![k].captured = @ + 1,
                ![k].sent = IF calls[k].promise = "resolved"
                            THEN Append(@, f) ELSE @,
                ![k].queued = IF calls[k].promise = "pending"
                              THEN Append(@, f) ELSE @]
    /\ UNCHANGED <<isActive, isConnecting, transcriptions, sessionRef,
                   audioContextRef, nextStartTimeRef, sourcesRef,
                   transcriptionRef, pending, nodes>>
    /\ UNCHANGED others

\* The clock of a rendering output context advances.
Tick(k) ==
    /\ calls[k].outCtx = "running"
    /\ calls' = [calls EXCEPT ![k].now = @ + 1]
    /\ UNCHANGED <<isActive, isConnecting, transcriptions, sessionRef,
                   audioContextRef, nextStartTimeRef, sourcesRef,
                   transcriptionRef, pending, nodes>>
    /\ UNCHANGED others

\* The session life cycle and the capture side.
Next ==
    \/ Len(calls) < MaxStarts /\ ClickStart
    \/ ClickStop
    \/ \E k \in Ids : GetUserMediaOk(k)
    \/ \E k \in Ids : GetUserMediaFail(k)
    \/ \E k \in Ids : OnOpen(k)
    \/ \E k \in Ids : PromiseResolve(k)
    \/ \E k \in Ids : ConnectReject(k)
    \/ \E k \in Ids : OnClose(k)
    \/ \E k \in Ids : OnError(k)
    \/ \E k \in Ids : calls[k].captured < MaxFrames /\ AudioProcess(k)

Spec == Init /\ [][Next]_vars

\* sessionPromise is not left pending once onopen has run.  The specifications
\* below take the session promise to resolve in the microtasks that follow
\* onopen, before any other event is handled; Spec does not.
Settled == \A k \in Ids : ~(calls[k].capture /\ calls[k].promise = "pending")

\* The inbound side: sessions that start without failure, every kind of
\* message, the decodes and the ended events.
NextPlay ==
    \/ Settled /\ Len(calls) < PlayStarts /\ ClickStart
    \/ Settled /\ ClickStop
    \/ \E k \in Ids : Settled /\ GetUserMediaOk(k)
    \/ \E k \in Ids : Settled /\ OnOpen(k)
    \/ \E k \in Ids : PromiseResolve(k)
    \/ \E k \in Ids : Settled /\ OnClose(k)
    \/ \E k \in Ids : \E m \in Msgs(k) :
          Settled /\ Arrived < PlayMsgs /\ OnMessage(k, m)
    \/ \E h \in pending : Settled /\ DecodeDone(h)
    \/ \E h \in pending : Settled /\ DecodeFail(h)
    \/ \E id \in DOMAIN nodes : Settled /\ OnEnded(id)

SpecPlay == Init /\ [][NextPlay]_vars

\* The transcript side over several sessions: sessions that start without
\* failure and the messages that carry no audio.
NextTurns ==
    \/ Settled /\ Len(calls) < MaxStarts /\ ClickStart
    \/ Settled /\ ClickStop
    \/ \E k \in Ids : Settled /\ GetUserMediaOk(k)
    \/ \E k \in Ids : Settled /\ OnOpen(k)
    \/ \E k \in Ids : PromiseResolve(k)
    \/ \E k \in Ids : Settled /\ OnClose(k)
    \/ \E k \in Ids : \E m \in TextMsgs(k) :
          Settled /\ Arrived < TurnMsgs /\ OnMessage(k, m)

SpecTurns == Init /\ [][NextTurns]_vars

\* The capture side over several sessions: sessions that start without failure
\* and the audioprocess events of their script processors.
NextCapture ==
    \/ Settled /\ Len(calls) < MaxStarts /\ ClickStart
    \/ Settled /\ ClickStop
    \/ \E k \in Ids : Settled /\ GetUserMediaOk(k)
    \/ \E k \in Ids : Settled /\ OnOpen(k)
    \/ \E k \in Ids : PromiseResolve(k)
    \/ \E k \in Ids : Settled /\ OnClose(k)
    \/ \E k \in Ids : Settled /\ calls[k].captured < CaptureFrames /\ AudioProcess(k)

SpecCapture == Init /\ [][NextCapture]_vars

\* The playback side against the audio clock: the first session alone, the
\* messages that carry audio or the interruption flag, the decodes, the ended
\* events and the clock of the output context.
NextClock ==
    \/ Settled /\ calls = <<>> /\ ClickStart
    \/ Settled /\ ClickStop
    \/ \E k \in Ids : Settled /\ GetUserMediaOk(k)
    \/ \E k \in Ids : Settled /\ OnOpen(k)
    \/ \E k \in Ids : PromiseResolve(k)
    \/ \E k \in Ids : Settled /\ OnClose(k)
    \/ \E k \in Ids : \E m \in AudioMsgs :
          Settled /\ Arrived < ClockMsgs /\ OnMessage(k, m)
    \/ \E h \in pending : Settled /\ DecodeDone(h)
    \/ \E id \in DOMAIN nodes : Settled /\ OnEnded(id)
    \/ \E k \in Ids : Settled /\ calls[k].now < MaxClock /\ Tick(k)

SpecClock == Init /\ [][NextClock]_vars

\* Messages that carry several fields at once, on the first session alone: the
\* decodes (resolved or rejected), the ended events, End and the remote close.
NextFields ==
    \/ Settled /\ calls = <<>> /\ ClickStart
    \/ Settled /\ ClickStop
    \/ \E k \in Ids : Settled /\ GetUserMediaOk(k)
    \/ \E k \in Ids : Settled /\ OnOpen(k)
    \/ \E k \in Ids : PromiseResolve(k)
    \/ \E k \in Ids : Settled /\ OnClose(k)
    \/ \E k \in Ids : \E m \in FieldMsgs(k, calls[k].arrived + 1) :
          Settled /\ Arrived < MaxFieldMsgs /\ OnMessage(k, m)
    \/ \E h \in pending : Settled /\ DecodeDone(h)
    \/ \E h \in pending : Settled /\ DecodeFail(h)
    \/ \E id \in DOMAIN nodes : Settled /\ OnEnded(id)

SpecFields == Init /\ [][NextFields]_vars

\* The capture side over several sessions, with the audioprocess events that
\* may come before line 311 has the session.
NextQueue ==
    \/ Len(calls) < MaxStarts /\ ClickStart
    \/ ClickStop
    \/ \E k \in Ids : GetUserMediaOk(k)
    \/ \E k \in Ids : OnOpen(k)
    \/ \E k \in Ids : PromiseResolve(k)
    \/ \E k \in Ids : OnClose(k)
    \/ \E k \in Ids : calls[k].captured < CaptureFrames /\ AudioProcess(k)

SpecQueue == Init /\ [][NextQueue]_vars

\* The capture side of the first session alone, with the samples of its frames.
NextCodec ==
    \/ Settled /\ calls = <<>> /\ ClickStart
    \/ Settled /\ ClickStop
    \/ \E k \in Ids : Settled /\ GetUserMediaOk(k)
    \/ \E k \in Ids : Settled /\ OnOpen(k)
    \/ \E k \in Ids : PromiseResolve(k)
    \/ \E k \in Ids : Settled /\ OnClose(k)
    \/ \E k \in Ids : \E n \in Samples :
          Settled /\ calls[k].captured < CodecFrames /\ CaptureSample(k, n)

SpecCodec == Init /\ [][NextCodec]_vars

\* The session life cycle with its failures (permission denial, connect
\* rejection, transport error, remote close) over several start calls.
NextLife ==
    \/ Settled /\ Len(calls) < LifeStarts /\ ClickStart
    \/ Settled /\ ClickStop
    \/ \E k \in Ids : Settled /\ GetUserMediaOk(k)
    \/ \E k \in Ids : Settled /\ GetUserMediaFail(k)
    \/ \E k \in Ids : Settled /\ OnOpen(k)
    \/ \E k \in Ids : PromiseResolve(k)
    \/ \E k \in Ids : Settled /\ ConnectReject(k)
    \/ \E k \in Ids : Settled /\ OnClose(k)
    \/ \E k \in Ids : Settled /\ OnError(k)

SpecLife == Init /\ [][NextLife]_vars

\* What the environment owes a startSession call: getUserMedia settles; a
\* channel that is connecting opens, fails, closes or has its connect rejected;
\* a failed channel and a channel on which close() was called deliver their
\* close event; the session promise resolves after onopen.  Once onerror or
\* onclose has reported the failure of a channel that never opened, nothing in
\* lines 298-299 makes sessionPromise reject, so that rejection is not owed.
GetUserMediaSettles ==
    \E k \in Ids : Settled /\ (GetUserMediaOk(k) \/ GetUserMediaFail(k))

ConnectSettles ==
    \E k \in Ids :
        /\ Settled
        /\ calls[k].chan = "connecting"
        /\ OnOpen(k) \/ OnError(k) \/ OnClose(k) \/ ConnectReject(k)

CloseDelivered ==
    \E k \in Ids :
        Settled /\ calls[k].chan \in {"failed", "closing"} /\ OnClose(k)

SpecLifeFair ==
    /\ SpecLife
    /\ WF_vars(GetUserMediaSettles)
    /\ WF_vars(ConnectSettles)
    /\ WF_vars(CloseDelivered)
    /\ WF_vars(\E k \in Ids : PromiseResolve(k))

\* ---------------------------------------------------------------- claims
Open(k) == isActive /\ calls[k].chan = "open"

\* A step that runs stopSession: the End button or an onclose callback.
StopStep == ClickStop \/ \E k \in Ids : OnClose(k)

\* Session k was opened and has been stopped: its channel is closing or closed
\* and stopSession has closed its output context.
TornDown(k) ==
    /\ calls[k].capture
    /\ calls[k].chan \in {"closing", "closed"}
    /\ calls[k].outCtx = "closed"

\* A step in which the handler of a message that carries the interruption flag
\* runs lines 277-281, on an open session.
InterruptHandled ==
    \/ \E k \in Ids : \E m \in Msgs(k) :
          m.audio = 0 /\ m.interrupted /\ Open(k) /\ OnMessage(k, m)
    \/ \E h \in pending : h.msg.interrupted /\ Open(h.sid) /\ DecodeDone(h)

\* C1: when the interruption flag of an inbound message is handled on an open
\* session, every node that was in the active set is stopped by that step, the
\* active set is empty after it and the cursor is 0.
C1_InterruptStopsAll ==
    [][InterruptHandled =>
          /\ sourcesRef' = {}
          /\ nextStartTimeRef' = 0
          /\ \A id \in sourcesRef :
                id \in DOMAIN nodes' /\ nodes'[id].st = "stopped"]_vars

\* C1 witness: an open session in which an interruption has stopped the node of
\* a chunk that arrived in an earlier message.
C1_Witness ==
    /\ sourcesRef = {}
    /\ nextStartTimeRef = 0
    /\ \E id \in DOMAIN nodes :
          /\ nodes[id].st = "stopped"
          /\ Open(id[1])
          /\ id[2] < calls[id[1]].interruptedAt

\* C2: inbound messages are handled strictly in arrival order: when a message of
\* channel k is handed to onmessage, no handler of an earlier message of that
\* channel is still waiting for its decode.
C2_ArrivalOrder ==
    [][\A k \in Ids :
          (Open(k) /\ \E m \in Msgs(k) : OnMessage(k, m))
              => \A h \in pending : h.sid # k]_vars

\* C3: once an interruption has been handled, no node made from a chunk that
\* arrived before it is started, playing or in the active set.
C3_NoAudioFromBeforeInterruption ==
    \A id \in DOMAIN nodes :
        id[2] < calls[id[1]].interruptedAt
            => nodes[id].st # "started" /\ id \notin sourcesRef

\* C4: after stop has run on a session, no captured frame of it is passed to
\* sendRealtimeInput any more.
C4_NoSendAfterStop ==
    [][\A k \in Ids : TornDown(k) => calls'[k].sent = calls[k].sent]_vars

\* C5: a decode that was in flight when stop ran and completes afterwards is
\* discarded: the cursor, the active set, the transcript buffers and the turn
\* history stay as they are.
C5_LateDecodeDiscarded ==
    [][\A h \in pending :
          (TornDown(h.sid) /\ DecodeDone(h))
              => UNCHANGED <<nextStartTimeRef, sourcesRef, transcriptionRef,
                             transcriptions>>]_vars

C7_TeardownCancelsPlayback ==
    [][StopStep =>
          /\ sourcesRef' = {}
          /\ nextStartTimeRef' = 0
          /\ \A id \in sourcesRef : nodes'[id].st # "started"]_vars

\* The tokens of the turn entries a step appends to the turn history.
NewTurnTokens ==
    UNION {{transcriptions'[i].text[j] : j \in 1..Len(transcriptions'[i].text)} :
              i \in (Len(transcriptions) + 1)..Len(transcriptions')}

\* C8: teardown resets both transcript buffers to empty, so a turn emitted
\* during the session of channel k holds only fragments received on channel k.
C8_TeardownResetsBuffers ==
    [][/\ StopStep => transcriptionRef' = [user |-> NoText, model |-> NoText]
       /\ \A k \in Ids :
             (\E m \in TextMsgs(k) : OnMessage(k, m))
                 => \A t \in NewTurnTokens : t[2] = k]_vars

\* C9: over every interleaving of user stop, remote close and transport error,
\* close is called at most once on each session and at most once on each
\* output audio context.
C9_NoDoubleRelease ==
    \A k \in Ids : calls[k].closeCalls <= 1 /\ calls[k].ctxCloses <= 1

\* C9 witness: the remote close of session k arrived before line 311 stored
\* the session handle: the onclose callback has run stopSession (which closed
\* the output context and found no session to close), and the handle of the
\* closed session has been stored afterwards, for a later stopSession to find.
C9_Witness ==
    \E k \in Ids :
        /\ sessionRef = k
        /\ calls[k].chan = "closed"
        /\ calls[k].closeCalls = 0
        /\ calls[k].ctxCloses = 1

\* The resources of call k that are still held.
Held(k) ==
    \/ calls[k].chan \in {"connecting", "open", "failed"}
    \/ calls[k].stream
    \/ calls[k].inCtx = "running"
    \/ calls[k].capture
    \/ calls[k].outCtx = "running"

\* C10: whenever the session is Idle (not connecting and not active) no
\* resource is held.
C10_IdleHoldsNothing ==
    (~isActive /\ ~isConnecting) => \A k \in Ids : ~Held(k)

\* The calls whose script processor is connected and delivers audioprocess
\* events.
Capturing == {k \in Ids : calls[k].capture}

\* C11: at most one capture pipeline is active at any time: over every sequence
\* of start, stop and restart at most one script processor delivers frames.
C11_OneCapturePipeline == Cardinality(Capturing) <= 1

\* The calls whose remote channel is open.
OpenChans == {k \in Ids : calls[k].chan = "open"}

NotStoppedSinceStart == audioContextRef # 0

\* C13: the connection state moves only Idle -> Connecting -> Open and back to
\* Idle: the session is never connecting and active at once, it becomes
\* connecting only from Idle, it becomes active only from Connecting, and it
\* does not become active after stopSession has run unless startSession has
\* been called since.
C13_StateMachine ==
    [][/\ ~(isConnecting /\ isActive)
       /\ ~(isConnecting' /\ isActive')
       /\ (isConnecting' /\ ~isConnecting) => ~isActive
       /\ (isActive' /\ ~isActive) => isConnecting
       /\ (isActive' /\ ~isActive) => NotStoppedSinceStart]_vars

\* C14: the capture pipeline of a call is started only by the step in which its
\* channel signals open, with the microphone stream acquired; a frame is
\* captured, queued or sent only with the stream acquired and the pipeline
\* started, and sent only once the channel has been open.
C14_NoCaptureBeforeOpen ==
    [][\A k \in Ids :
          /\ (calls'[k].capture /\ ~calls[k].capture)
                => /\ calls[k].stream
                   /\ calls[k].chan = "connecting" /\ calls'[k].chan = "open"
          /\ (calls'[k].captured # calls[k].captured
                 \/ calls'[k].queued # calls[k].queued
                 \/ calls'[k].sent # calls[k].sent)
                => /\ calls[k].stream /\ calls[k].capture
                   /\ calls[k].chan \notin {"none", "connecting"}]_vars

\* C14 witness: a frame has been sent on the open channel of an active session.
C14_Witness ==
    \E k \in Ids : Open(k) /\ calls[k].stream /\ Len(calls[k].sent) > 0

\* C15: once a startSession call has failed before its channel opened (its
\* catch block has run), nothing that call acquired is held or referenced: no
\* audio context, no microphone stream, no channel.
C15_FailedStartReleases ==
    \A k \in Ids :
        calls[k].pc = "failed"
            => ~Held(k) /\ audioContextRef # k /\ sessionRef # k

\* The newest startSession call is still Connecting and has failed before its
\* channel opened: its catch block has run, or its channel has reported an
\* error or has closed without ever opening.
FailedBeforeOpen ==
    /\ isConnecting
    /\ calls # <<>>
    /\ LET c == calls[Len(calls)]
       IN  /\ ~c.capture
           /\ c.pc = "failed" \/ c.chan \in {"failed", "closed"}

\* C16: after a failure before open the session eventually leaves Connecting
\* and is Idle again (the button is enabled and shows "Start Live").
C16_LeavesConnecting == FailedBeforeOpen ~> (~isConnecting /\ ~isActive)

\* C17: when the session whose channel had a transport error while open leaves
\* Open, the step that takes it to Idle stops its capture, cancels the
\* scheduled playback and releases its channel, microphone stream and audio
\* contexts.
C17_ErrorTearsDown ==
    [][\A k \in Ids :
          (isActive /\ calls[k].capture /\ calls[k].chan = "failed" /\ ~isActive')
              => /\ ~isConnecting'
                 /\ calls'[k].chan \in {"closing", "closed"}
                 /\ ~calls'[k].capture
                 /\ ~calls'[k].stream
                 /\ calls'[k].inCtx # "running"
                 /\ calls'[k].outCtx # "running"
                 /\ sourcesRef' = {}]_vars

\* C18: whenever a source node is started on an open session, its start time is
\* at least the current time of the output context at that moment.
C18_NoRetroactiveStart ==
    [][\A h \in pending :
          (Open(h.sid) /\ DecodeDone(h))
              => nodes'[<<h.sid, h.seq>>].start >= calls[h.sid].now]_vars

\* The ends (start + duration) of the nodes of session k that have been started
\* and neither stopped by an interruption nor ended.
StartedEnds(k) ==
    {nodes[p].start + nodes[p].dur :
        p \in {q \in DOMAIN nodes : q[1] = k /\ nodes[q].st = "started"}}

\* C19: on an open session, the handler of an audio message raises the cursor
\* to max(cursor, clock); the node is started at the cursor and the cursor
\* becomes start + duration; and a chunk scheduled while the chunk scheduled
\* before it has not reached its end, with no interruption between the two,
\* starts exactly at that end.
C19_GaplessSchedule ==
    [][/\ \A k \in Ids : \A m \in AudioMsgs :
             (Open(k) /\ m.audio > 0 /\ OnMessage(k, m))
                 => nextStartTimeRef' = Max(nextStartTimeRef, calls[k].now)
       /\ \A h \in pending :
             (Open(h.sid) /\ DecodeDone(h))
                 => LET n == nodes'[<<h.sid, h.seq>>]
                    IN  /\ n.start = nextStartTimeRef /\ n.dur = h.msg.audio
                        /\ ~h.msg.interrupted
                              => nextStartTimeRef' = n.start + n.dur
                        /\ \A e \in StartedEnds(h.sid) :
                              ((\A e2 \in StartedEnds(h.sid) : e2 <= e)
                                  /\ calls[h.sid].now < e)
                                  => n.start = e]_vars

\* C19 witness: on an open session whose clock has advanced, two chunks are
\* scheduled and playing, the second starting where the first ends.
C19_Witness ==
    \E p, q \in DOMAIN nodes :
        /\ p[1] = q[1] /\ Open(p[1]) /\ calls[p[1]].now > 0
        /\ nodes[p].st = "started" /\ nodes[q].st = "started"
        /\ p[2] < q[2]
        /\ nodes[q].start = nodes[p].start + nodes[p].dur
        /\ nextStartTimeRef = nodes[q].start + nodes[q].dur

\* C20: audio plays in arrival order without overlap: on an open session, of
\* two started chunks with no interruption since the earlier one arrived, the
\* one that arrived later starts no earlier than the end of the other.
C20_ArrivalOrderNoOverlap ==
    \A p, q \in DOMAIN nodes :
        (/\ p[1] = q[1] /\ Open(p[1])
         /\ p[2] < q[2]
         /\ calls[p[1]].interruptedAt < p[2]
         /\ nodes[p].st = "started" /\ nodes[q].st = "started")
            => nodes[q].start >= nodes[p].start + nodes[p].dur

\* C21: after an interruption has been handled on an open session, the first
\* chunk scheduled afterwards is started at the current time of the output
\* context, and the cursor then is that start time plus the chunk's duration.
C21_FirstAfterInterruptAtClock ==
    [][\A h \in pending :
          (/\ Open(h.sid) /\ DecodeDone(h)
           /\ calls[h.sid].interruptedAt > 0
           /\ calls[h.sid].scheduledSince = 0)
              => LET n == nodes'[<<h.sid, h.seq>>]
                 IN  /\ n.start = calls[h.sid].now
                     /\ ~h.msg.interrupted
                           => nextStartTimeRef' = n.start + n.dur]_vars

\* A step that runs lines 277-281 for a message that carries the interruption
\* flag.
InterruptStep ==
    \/ \E k \in Ids : \E m \in Msgs(k) :
          m.audio = 0 /\ m.interrupted /\ OnMessage(k, m)
    \/ \E h \in pending : h.msg.interrupted /\ DecodeDone(h)

\* C22: the cursor never decreases, except that a step which handles an
\* interruption and a step which runs stopSession reset it to 0.
C22_CursorMonotonic ==
    [][nextStartTimeRef' < nextStartTimeRef
          => (InterruptStep \/ StopStep) /\ nextStartTimeRef' = 0]_vars

\* C22 witness: on an open session whose clock has advanced, a chunk was
\* scheduled (the cursor rose) and an interruption then reset the cursor to 0.
C22_Witness ==
    \E id \in DOMAIN nodes :
        /\ Open(id[1]) /\ calls[id[1]].now > 0
        /\ nodes[id].st = "stopped" /\ nodes[id].start + nodes[id].dur > 0
        /\ calls[id[1]].interruptedAt > 0
        /\ nextStartTimeRef = 0

\* The source nodes that are scheduled and live: started, not stopped, not
\* ended, on an output context that still renders.
LiveNodes ==
    {id \in DOMAIN nodes :
        nodes[id].st = "started" /\ calls[id[1]].outCtx = "running"}

\* C23: the active set holds exactly the nodes that have been scheduled and
\* have neither ended nor been stopped.
C23_ActiveSetExact == sourcesRef = LiveNodes

\* C24: a message with turn-complete emits exactly one turn (the user entry and
\* the model entry, holding the two buffers as they are at that point, the
\* fragments of the same message included) when a buffer is non-empty, emits
\* nothing when both are empty, and leaves both buffers empty; a message
\* without turn-complete emits nothing.
C24_TurnComplete ==
    [][\A k \in Ids : \A m \in TextMsgs(k) :
          OnMessage(k, m)
              => LET user == transcriptionRef.user \o m.inputTranscription
                     model == transcriptionRef.model \o m.outputTranscription
                     turn == <<[role |-> "user", text |-> user],
                               [role |-> "model", text |-> model]>>
                 IN  IF m.turnComplete
                     THEN /\ transcriptionRef' = [user |-> NoText, model |-> NoText]
                          /\ transcriptions' =
                                IF user = NoText /\ model = NoText
                                THEN transcriptions
                                ELSE transcriptions \o turn
                     ELSE transcriptions' = transcriptions]_vars

\* C24 witness: one turn has been emitted with an empty model side, and the
\* turn-complete that followed it at once has emitted nothing.
C24_Witness ==
    /\ Len(transcriptions) = 2
    /\ transcriptions[1].role = "user" /\ transcriptions[1].text # NoText
    /\ transcriptions[2].role = "model" /\ transcriptions[2].text = NoText
    /\ transcriptionRef = [user |-> NoText, model |-> NoText]
    /\ Arrived >= 3

\* The fragments of a text come in the order of the messages that carried them.
InArrivalOrder(text) ==
    \A i, j \in 1..Len(text) : i < j => text[i][3] < text[j][3]

\* C25: each transcript buffer holds its speaker's fragments in the order in
\* which their messages arrived, and a message handled without a decode
\* appends its fragments to the end of their own speaker's buffer only.
C25_BuffersInArrivalOrder ==
    [][/\ InArrivalOrder(transcriptionRef'.user)
       /\ InArrivalOrder(transcriptionRef'.model)
       /\ \A k \in Ids : \A m \in FieldMsgs(k, calls[k].arrived + 1) :
             (OnMessage(k, m) /\ m.audio = 0 /\ ~m.turnComplete)
                 => /\ transcriptionRef'.user =
                          transcriptionRef.user \o m.inputTranscription
                    /\ transcriptionRef'.model =
                          transcriptionRef.model \o m.outputTranscription]_vars

\* The blobs of the first n frames of a script processor, in capture order.
Blobs(n) == [i \in 1..n |-> pcmBlob(i)]

\* C26: every captured frame is passed to sendRealtimeInput exactly once, as
\* audio/pcm;rate=16000, in capture order; the frames captured before the
\* session promise has resolved wait in order and are sent when it resolves.
C26_FramesSentOnceInOrder ==
    \A k \in Ids :
        IF calls[k].promise = "resolved"
        THEN calls[k].sent = Blobs(calls[k].captured) /\ calls[k].queued = <<>>
        ELSE calls[k].queued = Blobs(calls[k].captured) /\ calls[k].sent = <<>>

\* C26 witness: two frames have been captured and sent, in capture order, on
\* the open channel of an active session.
C26_Witness ==
    \E k \in Ids :
        /\ Open(k) /\ calls[k].promise = "resolved"
        /\ calls[k].sent = <<pcmBlob(1), pcmBlob(2)>>

\* C27: when the audio payload of a message is corrupt, nothing is scheduled for
\* it and the other fields of the message (interruption, fragments,
\* turn-complete) are handled as they are for a message without audio; the
\* session stays open.
C27_CorruptDropsOnlyFrame ==
    [][\A h \in pending :
          (Open(h.sid) /\ DecodeFail(h))
              => LET q == afterAudio(Playback, h.msg)
                 IN  /\ nodes' = q.nodes
                     /\ sourcesRef' = q.sourcesRef
                     /\ nextStartTimeRef' = q.nextStartTimeRef
                     /\ transcriptionRef' = q.transcriptionRef
                     /\ transcriptions' = q.transcriptions
                     /\ isActive' /\ calls'[h.sid].chan = "open"]_vars

Clamp16(i) ==
    IF i > Int16Range \div 2 - 1 THEN Int16Range \div 2 - 1
    ELSE IF i < -(Int16Range \div 2) THEN -(Int16Range \div 2) ELSE i

\* v is round(n / SubSteps) clamped to the 16-bit range (a tie may round
\* either way).
IsRoundClamped(v, n) ==
    \E r \in (TruncDiv(n, SubSteps) - 1)..(TruncDiv(n, SubSteps) + 1) :
        2 * Abs(r * SubSteps - n) <= SubSteps /\ v = Clamp16(r)

\* The blob that transmits the 16-bit value v.
BlobOfValue(v) ==
    [data |-> encode(bytesOf(<<v>>)), mimeType |-> "audio/pcm;rate=16000"]

\* C28: the 16-bit value transmitted for a captured sample s of [-1.0, 1.0] is
\* round(s * 32768) clamped to -32768..32767; so 1.0 is sent as 32767, and the
\* value never has the sign opposite to the sample's.
C28_QuantizeRoundClamp ==
    [][\A k \in Ids : \A n \in Samples :
          CaptureSample(k, n)
              => \E v \in -(Int16Range \div 2)..(Int16Range \div 2 - 1) :
                    /\ calls'[k].sent[Len(calls'[k].sent)] = BlobOfValue(v)
                    /\ IsRoundClamped(v, n)
                    /\ n = One => v = Int16Range \div 2 - 1
                    /\ n > 0 => v >= 0
                    /\ n < 0 => v <= 0]_vars

\* decodeAudioData of utils/audioUtils.ts, up to the division by 32768: the
\* 16-bit values of a byte sequence, low byte first, two's complement.
RECURSIVE int16sOf(_)
int16sOf(bytes) ==
    IF Len(bytes) < 2 THEN <<>>
    ELSE LET u == bytes[1] + 256 * bytes[2]
         IN  <<IF u >= Int16Range \div 2 THEN u - Int16Range ELSE u>>
                 \o int16sOf(SubSeq(bytes, 3, Len(bytes)))

\* decode of utils/audioUtils.ts: the bytes a base64 text stands for.
RECURSIVE decode(_)
decode(text) ==
    IF Len(text) < 4 THEN <<>>
    ELSE LET b1 == text[1] * 4 + text[2] \div 16
             b2 == (text[2] % 16) * 16 + text[3] \div 4
             b3 == (text[3] % 4) * 64 + text[4]
         IN  (IF text[3] = Pad THEN <<b1>>
              ELSE IF text[4] = Pad THEN <<b1, b2>>
              ELSE <<b1, b2, b3>>) \o decode(SubSeq(text, 5, Len(text)))

\* The samples reconstructed from the data of a blob, each value v standing for
\* the floating-point number v / Scale.
Reconstructed(blob) == int16sOf(decode(blob.data))

\* C29: the samples decoded from the encoded bytes of a captured frame are as
\* many as the frame's samples, and each differs from the original sample by
\* at most 1/32768.
C29_RoundTrip ==
    [][\A k \in Ids : \A n \in Samples :
          CaptureSample(k, n)
              => LET vs == Reconstructed(calls'[k].sent[Len(calls'[k].sent)])
                 IN  /\ Len(vs) = 1
                     /\ Abs(vs[1] * SubSteps - n) <= SubSteps]_vars

\* C30: there is no automatic reconnect.  A connect attempt (a channel that
\* starts connecting) is the step of one startSession call reaching line 233
\* after its own getUserMedia, on a call that has made no attempt before; a
\* call that was just started has made none.  So after a remote close, a
\* transport error or a failed start no attempt happens without a new start,
\* and the attempts never outnumber the start calls.
C30_NoAutomaticReconnect ==
    [][/\ \A k \in Ids :
            (calls'[k].chan = "connecting" /\ calls[k].chan # "connecting")
                => /\ calls[k].chan = "none"
                   /\ calls[k].pc = "getUserMedia"
                   /\ GetUserMediaOk(k)
       /\ \A k \in DOMAIN calls' \ Ids : calls'[k].chan = "none"
       /\ Cardinality({k \in DOMAIN calls' : calls'[k].chan # "none"})
              <= Len(calls')]_vars

\* A start that failed at getUserMedia, a session that opened and was closed,
\* and a later explicit start that is connecting.
C30_Witness ==
    \E i, j, k \in Ids :
        /\ i < k /\ j < k
        /\ calls[i].pc = "failed" /\ calls[i].chan = "none"
        /\ calls[j].chan = "closed" /\ calls[j].capture
        /\ calls[k].chan = "connecting"
        /\ \A l \in Ids : l # k => calls[l].chan \notin {"connecting", "open"}

\* The role of the i-th entry of a history that alternates user, model.
RoleAt(i) == IF i % 2 = 1 THEN "user" ELSE "model"

\* C31: the turn history is append-only and ordered.  Every step leaves the
\* history as it is or appends a user entry followed by a model entry at its
\* end (stop and a later start leave it as it is), so the history has even
\* length and its roles alternate user, model.
C31_HistoryAppendOnly ==
    [][/\ \/ transcriptions' = transcriptions
          \/ /\ Len(transcriptions') = Len(transcriptions) + 2
             /\ SubSeq(transcriptions', 1, Len(transcriptions)) = transcriptions
             /\ transcriptions'[Len(transcriptions) + 1].role = "user"
             /\ transcriptions'[Len(transcriptions) + 2].role = "model"
       /\ (StopStep \/ ClickStart) => transcriptions' = transcriptions
       /\ Len(transcriptions') % 2 = 0
       /\ \A i \in 1..Len(transcriptions') :
              transcriptions'[i].role = RoleAt(i)]_vars

\* Two turns in the history, the second one emitted in a later session than
\* the first, after a stop.
C31_Witness ==
    /\ Len(transcriptions) = 4
    /\ Len(calls) = 2
    /\ calls[1].arrived > 0 /\ calls[2].arrived > 0
    /\ calls[1].chan = "closed"
    /\ transcriptions[2].text # NoText
    /\ transcriptions[4].text # NoText

\* What the step that ends the handling of message m (arrival index seq of
\* channel k) must leave behind when the fields of m are handled in the order
\* audio chunk, interruption, user fragment, model fragment, turn-complete.
FieldsInOrder(k, seq, m) ==
    LET user == transcriptionRef.user \o m.inputTranscription
        model == transcriptionRef.model \o m.outputTranscription
    IN  /\ (m.turnComplete /\ (user # NoText \/ model # NoText))
               => /\ transcriptions' =
                        transcriptions \o <<[role |-> "user", text |-> user],
                                            [role |-> "model", text |-> model]>>
                  /\ transcriptionRef' = [user |-> NoText, model |-> NoText]
        /\ (m.audio > 0 /\ m.interrupted)
               => /\ <<k, seq>> \in DOMAIN nodes'
                  /\ nodes'[<<k, seq>>].st = "stopped"
                  /\ <<k, seq>> \notin sourcesRef'
                  /\ sourcesRef' = {}

\* C32: the fields of one inbound message are handled in the order audio
\* chunk, interruption, user fragment, model fragment, turn-complete.  A
\* fragment carried with turn-complete is part of the turn emitted for that
\* message, and an audio chunk carried with the interruption flag is stopped
\* and out of the active set once the message has been handled.
C32_FieldOrder ==
    [][/\ \A k \in Ids : \A m \in FieldMsgs(k, calls[k].arrived + 1) :
              (m.audio = 0 /\ OnMessage(k, m))
                  => FieldsInOrder(k, calls[k].arrived + 1, m)
       /\ \A h \in pending :
              DecodeDone(h) => FieldsInOrder(h.sid, h.seq, h.msg)]_vars

\* A message that carried an audio chunk, the interruption flag, a model
\* fragment and turn-complete has been handled: its node was stopped and its
\* fragment is in the turn emitted for it.
C32_Witness ==
    \E id \in DOMAIN nodes :
        /\ nodes[id].st = "stopped"
        /\ id \notin sourcesRef
        /\ calls[id[1]].interruptedAt = id[2]
        /\ Len(transcriptions) = 2
        /\ transcriptions[2] = [role |-> "model", text |-> ModelFragAt(id[1], id[2])]
        /\ transcriptionRef = [user |-> NoText, model |-> NoText]

\* ---------------------------------------------------------------- App
Views == {"CHAT", "IMAGE", "VIDEO", "LIVE"}

\* Sidebar's onClick (setView, part_004 line 65): App renders another view
\* (lines 46-54, 129).  The component on display is unmounted; LiveView has no
\* effect cleanup (lines 198-220), so nothing of it runs at that moment.
SetView(v) ==
    /\ v # currentView
    /\ currentView' = v
    /\ UNCHANGED <<live, image, chat, video>>

\* One LiveView from its construction to after the view is switched: the
\* buttons are there while the view is displayed, the callbacks of its session
\* run whether it is displayed or not.
NextView ==
    \/ currentView = "LIVE" /\ Settled /\ calls = <<>> /\ ClickStart
    \/ currentView = "LIVE" /\ Settled /\ ClickStop
    \/ \E v \in Views : currentView = "LIVE" /\ Settled /\ SetView(v)
    \/ \E k \in Ids : Settled /\ GetUserMediaOk(k)
    \/ \E k \in Ids : Settled /\ OnOpen(k)
    \/ \E k \in Ids : PromiseResolve(k)
    \/ \E k \in Ids : Settled /\ OnClose(k)
    \/ \E k \in Ids : Settled /\ calls[k].captured < ViewFrames /\ AudioProcess(k)
    \/ \E k \in Ids : \E m \in AudioMsgs :
          Settled /\ Arrived < ViewMsgs /\ OnMessage(k, m)
    \/ \E h \in pending : Settled /\ DecodeDone(h)
    \/ \E id \in DOMAIN nodes : Settled /\ OnEnded(id)

SpecView == Init /\ [][NextView]_vars

\* C33: when the view is switched away from the Live view during a session,
\* the session is torn down.  While the Live view is not displayed no resource
\* of a session is held, no capture frame is sent and no inbound audio is
\* scheduled.
C33_SwitchTearsDown ==
    [][currentView' # "LIVE"
         => /\ \A k \in Ids : ~Held(k)'
            /\ currentView # "LIVE"
                  => /\ \A k \in Ids : calls'[k].sent = calls[k].sent
                     /\ DOMAIN nodes' = DOMAIN nodes]_vars

\* ---------------------------------------------------------------- ImageView
\* The texts typed into a prompt or input field.
Texts == {"", " ", "cat"}

\* !text.trim(): the text is empty or whitespace.
Blank(text) == text \in {"", " "}

\* The image view is on display; the rest as in Init.
InitImage ==
    /\ LiveInit
    /\ currentView = "IMAGE"
    /\ image = ImageInit
    /\ chat = ChatInit
    /\ video = VideoInit

\* checkKey is called, by the mount effect or by the 2-second interval (lines
\* 24-28), and waits for hasSelectedApiKey (lines 14-16).
ImageCheckKey ==
    /\ image' = [image EXCEPT !.checks = @ + 1]
    /\ UNCHANGED <<live, currentView, chat, video>>

\* hasSelectedApiKey answers: line 17.
ImageCheckKeyDone ==
    /\ image.checks > 0
    /\ image' = [image EXCEPT !.checks = @ - 1, !.hasKey = image.selected]
    /\ UNCHANGED <<live, currentView, chat, video>>

\* The button of the key gate (line 120): handleOpenKeyDialog up to its await,
\* lines 30-32.
ImageOpenKeyDialog ==
    /\ ~image.hasKey /\ ~image.dialog
    /\ image' = [image EXCEPT !.dialog = TRUE]
    /\ UNCHANGED <<live, currentView, chat, video>>

\* The user completes the key dialog: lines 33-34.
ImageKeyDialogDone ==
    /\ image.dialog
    /\ image' = [image EXCEPT !.dialog = FALSE, !.selected = TRUE,
                              !.hasKey = TRUE, !.errorType = "none"]
    /\ UNCHANGED <<live, currentView, chat, video>>

\* The prompt field of the generator view.
ImageSetPrompt(text) ==
    /\ image.hasKey
    /\ image' = [image EXCEPT !.prompt = text]
    /\ UNCHANGED <<live, currentView, chat, video>>

\* The Generate button of the generator view: handleGenerate up to its await,
\* lines 38-47.
ImageGenerate ==
    /\ image.hasKey
    /\ image' = IF Blank(image.prompt) \/ image.isGenerating
                THEN image
                ELSE [image EXCEPT !.isGenerating = TRUE, !.errorType = "none",
                                   !.request = "pending", !.started = @ + 1]
    /\ UNCHANGED <<live, currentView, chat, video>>

\* generateContent answers with an image part: lines 59-71, 90-92.
ImageGenerateOk ==
    /\ image.request = "pending"
    /\ image' = [image EXCEPT !.request = "none", !.isGenerating = FALSE,
                              !.results = <<image.started>> \o @]
    /\ UNCHANGED <<live, currentView, chat, video>>

\* generateContent answers without an image part: lines 73-75, 90-92.
ImageGenerateNoData ==
    /\ image.request = "pending"
    /\ image' = [image EXCEPT !.request = "none", !.isGenerating = FALSE]
    /\ UNCHANGED <<live, currentView, chat, video>>

\* The errors generateContent may throw, as the catch block tells them apart.
ImageErrors == {"429", "404", "other"}

\* generateContent throws: lines 76-92.
ImageGenerateFail(e) ==
    /\ image.request = "pending"
    /\ image' = [image EXCEPT
           !.request = "none", !.isGenerating = FALSE,
           !.errorType = IF e = "429" THEN "rate-limit"
                         ELSE IF e = "404" THEN @ ELSE "other",
           !.hasKey = IF e \in {"429", "404"} THEN FALSE ELSE @]
    /\ UNCHANGED <<live, currentView, chat, video>>

NextImage ==
    \/ image.checks < MaxChecks /\ ImageCheckKey
    \/ ImageCheckKeyDone
    \/ ImageOpenKeyDialog
    \/ ImageKeyDialogDone
    \/ \E text \in Texts : ImageSetPrompt(text)
    \/ image.started < MaxImageRequests /\ ImageGenerate
    \/ ImageGenerateOk
    \/ ImageGenerateNoData
    \/ \E e \in ImageErrors : ImageGenerateFail(e)

SpecImage == InitImage /\ [][NextImage]_vars

\* C34: after a generation has failed with a rate-limit error the key gate
\* stays: hasKey is false and stays false until the user completes the key
\* dialog; the periodic key check does not bring the generator view back.
C34_RateLimitForcesReselect ==
    [][(image.errorType = "rate-limit" /\ ~image.hasKey /\ image'.hasKey)
          => ImageKeyDialogDone]_vars

\* ---------------------------------------------------------------- ChatView
\* The chat view is on display; the rest as in Init.
InitChat ==
    /\ LiveInit
    /\ currentView = "CHAT"
    /\ image = ImageInit
    /\ chat = ChatInit
    /\ video = VideoInit

\* The input field, line 7.
ChatSetInput(text) ==
    /\ chat' = [chat EXCEPT !.input = text]
    /\ UNCHANGED <<live, currentView, image, video>>

\* handleSend called while isLoading is not looked at (line 24 testing the
\* input alone).
ChatSendWhileLoading(key) ==
    /\ chat' = IF ~key \/ Blank(chat.input)
               THEN chat
               ELSE [chat EXCEPT
                        !.messages = Append(@, [id |-> chat.now, role |-> "user",
                                                text |-> chat.input]),
                        !.input = "", !.isLoading = TRUE, !.phase = "sending",
                        !.sent = @ + 1]
    /\ UNCHANGED <<live, currentView, image, video>>

\* handleSend, from the Send button or the Enter key, up to its await (lines
\* 17-47); key tells whether process.env.API_KEY passes the test of line 19.
ChatSend(key) ==
    /\ chat' = IF ~key \/ Blank(chat.input) \/ chat.isLoading
               THEN chat
               ELSE [chat EXCEPT
                        !.messages = Append(@, [id |-> chat.now, role |-> "user",
                                                text |-> chat.input]),
                        !.input = "", !.isLoading = TRUE, !.phase = "sending",
                        !.sent = @ + 1]
    /\ UNCHANGED <<live, currentView, image, video>>

\* sendMessageStream resolves (lines 47-57).  The request went to the remote
\* service and back, which took at least one millisecond of Date.now().
ChatStreamOpen ==
    /\ chat.phase = "sending"
    /\ chat' = [chat EXCEPT
           !.now = @ + 1,
           !.phase = "streaming",
           !.aiMessageId = chat.now + 2,
           !.fullAiResponse = "",
           !.received = <<>>,
           !.messages = Append(@, [id |-> chat.now + 2, role |-> "model",
                                   text |-> ""])]
    /\ UNCHANGED <<live, currentView, image, video>>

\* The texts of a chunk; "" is a chunk without text (c.text || '').
ChunkTexts == {"", "a", "b"}

\* The stream loop with the message picked by its role, not by its id.
ChatChunkByRole(c) ==
    /\ chat.phase = "streaming"
    /\ LET full == chat.fullAiResponse \o c
       IN  chat' = [chat EXCEPT
               !.fullAiResponse = full,
               !.received = Append(@, c),
               !.chunks = @ + 1,
               !.messages = [i \in DOMAIN chat.messages |->
                                IF chat.messages[i].role = "model"
                                THEN [chat.messages[i] EXCEPT !.text = full]
                                ELSE chat.messages[i]]]
    /\ UNCHANGED <<live, currentView, image, video>>

\* One turn of the stream loop, lines 59-65.
ChatChunk(c) ==
    /\ chat.phase = "streaming"
    /\ LET full == chat.fullAiResponse \o c
       IN  chat' = [chat EXCEPT
               !.fullAiResponse = full,
               !.received = Append(@, c),
               !.chunks = @ + 1,
               !.messages = [i \in DOMAIN chat.messages |->
                                IF chat.messages[i].id = chat.aiMessageId
                                THEN [chat.messages[i] EXCEPT !.text = full]
                                ELSE chat.messages[i]]]
    /\ UNCHANGED <<live, currentView, image, video>>

\* The stream ends: the loop is left and the finally block runs (line 85).
ChatStreamEnd ==
    /\ chat.phase = "streaming"
    /\ chat' = [chat EXCEPT !.phase = "none", !.isLoading = FALSE]
    /\ UNCHANGED <<live, currentView, image, video>>

\* The errors the request may throw, as the catch block tells them apart (the
\* 401/403 branch, line 74, differs from the others by its text alone).
ChatErrors == {"429", "other"}

\* Lines 68-76.
errorText(e) ==
    IF e = "429" THEN "Quota Limit Reached (429)."
    ELSE IF e = "401" THEN "Authentication failed."
    ELSE "Aura encountered a connection interrupt."

\* sendMessageStream rejects, or the stream throws part-way: catch and finally,
\* lines 66-86.
ChatFail(e) ==
    /\ chat.phase \in {"sending", "streaming"}
    /\ chat' = [chat EXCEPT
           !.phase = "none", !.isLoading = FALSE,
           !.messages = Append(@, [id |-> chat.now, role |-> "model",
                                   text |-> errorText(e)])]
    /\ UNCHANGED <<live, currentView, image, video>>

\* Date.now() advances.
ChatTick ==
    /\ chat' = [chat EXCEPT !.now = @ + 1]
    /\ UNCHANGED <<live, currentView, image, video>>

NextChat ==
    \/ \E text \in Texts : ChatSetInput(text)
    \/ \E key \in BOOLEAN : chat.sent < MaxChatRequests /\ ChatSend(key)
    \/ ChatStreamOpen
    \/ \E c \in ChunkTexts : chat.chunks < MaxChunks /\ ChatChunk(c)
    \/ ChatStreamEnd
    \/ \E e \in ChatErrors : ChatFail(e)
    \/ chat.now < MaxChatClock /\ ChatTick

SpecChat == InitChat /\ [][NextChat]_vars

\* C35: at most one chat request is in flight.  handleSend called while
\* isLoading is true or with blank input changes no state and issues no
\* request; a request is issued only while none is in flight; and when a
\* request ends, by the end of its stream or by an error before or during
\* streaming, isLoading is false again.
C35_OneRequestInFlight ==
    [][/\ (chat.isLoading \/ Blank(chat.input))
            => /\ chat'.sent = chat.sent
               /\ \A key \in BOOLEAN : ChatSend(key) => chat' = chat
       /\ chat'.sent > chat.sent
            => chat.phase = "none" /\ chat'.sent = chat.sent + 1
       /\ (chat.phase # "none" /\ chat'.phase = "none") => ~chat'.isLoading
       /\ chat'.isLoading <=> chat'.phase # "none"]_vars

\* A second request is streaming after the first one ended with an error
\* part-way through its stream.
C35_Witness ==
    /\ chat.sent = 2
    /\ chat.phase = "streaming"
    /\ chat.isLoading
    /\ Len(chat.messages) = 5
    /\ chat.messages[2].role = "model" /\ chat.messages[2].text = "a"
    /\ chat.messages[3].text = errorText("429")

\* The concatenation of a sequence of texts, in order.
RECURSIVE ConcatAll(_)
ConcatAll(texts) ==
    IF texts = <<>> THEN "" ELSE texts[1] \o ConcatAll(Tail(texts))

\* C36: while a response streams, after each chunk the text of the model
\* message created for the request is the concatenation, in arrival order, of
\* the chunks received so far, and no other message is modified; when the
\* stream fails part-way the partial text is kept and one error message is
\* appended after it.
C36_StreamedConcatenation ==
    [][LET n == Len(chat.messages)
       IN  /\ \A c \in ChunkTexts :
                 ChatChunk(c)
                    => /\ Len(chat'.messages) = n
                       /\ chat'.messages[n] =
                             [chat.messages[n] EXCEPT
                                 !.text = ConcatAll(Append(chat.received, c))]
                       /\ chat.messages[n].role = "model"
                       /\ \A i \in 1..(n - 1) :
                             chat'.messages[i] = chat.messages[i]
           /\ \A e \in ChatErrors :
                 (chat.phase = "streaming" /\ ChatFail(e))
                    => /\ Len(chat'.messages) = n + 1
                       /\ SubSeq(chat'.messages, 1, n) = chat.messages
                       /\ chat.messages[n].text = ConcatAll(chat.received)
                       /\ chat'.messages[n + 1].role = "model"
                       /\ chat'.messages[n + 1].text = errorText(e)]_vars

\* The stream of a second request failed after the chunks "b" and "a": its
\* message holds "ba" and is followed by the error message, and the messages
\* of the first request are as they were.
C36_Witness ==
    /\ chat.sent = 2
    /\ chat.phase = "none"
    /\ Len(chat.messages) = 5
    /\ chat.messages[2].role = "model" /\ chat.messages[2].text = ""
    /\ chat.messages[4].role = "model" /\ chat.messages[4].text = "ba"
    /\ chat.received = <<"b", "a">>
    /\ chat.messages[5].text = errorText("other")

\* ---------------------------------------------------------------- VideoView
\* The video view is on display; the rest as in Init.
InitVideo ==
    /\ LiveInit
    /\ currentView = "VIDEO"
    /\ image = ImageInit
    /\ chat = ChatInit
    /\ video = VideoInit

\* Lines 46-52.
loadingMessages ==
    <<"Crafting cinematic frames...", "Simulating physics and motion...",
      "Rendering temporal consistency...", "Finalizing textures and lighting...",
      "Packaging high-quality MP4...">>

\* The mount effect: checkKey, lines 13-20, with the answer of
\* hasSelectedApiKey.
VideoCheckKey(selected) ==
    /\ ~video.checked
    /\ video' = [video EXCEPT !.checked = TRUE, !.hasKey = selected]
    /\ UNCHANGED <<live, currentView, image, chat>>

\* The button of the key gate: handleOpenKeyDialog, lines 22-25.
VideoOpenKeyDialog ==
    /\ ~video.hasKey
    /\ video' = [video EXCEPT !.hasKey = TRUE]
    /\ UNCHANGED <<live, currentView, image, chat>>

\* The prompt field of the generator view.
VideoSetPrompt(text) ==
    /\ video.hasKey
    /\ video' = [video EXCEPT !.prompt = text]
    /\ UNCHANGED <<live, currentView, image, chat>>

\* The Generate button: handleGenerate up to its first await, lines 27-36.
VideoGenerate ==
    /\ video.hasKey
    /\ video' = IF Blank(video.prompt) \/ video.isGenerating
                THEN video
                ELSE [video EXCEPT
                         !.isGenerating = TRUE,
                         !.statusMessage = "Initializing Veo engine...",
                         !.phase = "starting", !.started = @ + 1,
                         !.polls = 0, !.msgIdx = 0]
    /\ UNCHANGED <<live, currentView, image, chat>>

\* catchFinally without the finally block.
catchOnly(v, notFound) ==
    [v EXCEPT !.hasKey = IF notFound THEN FALSE ELSE @,
              !.alerts = @ + 1, !.phase = "none"]

\* The catch and finally blocks, lines 75-86, for an error that is
\* 'Requested entity was not found' (notFound) or any other.
catchFinally(v, notFound) ==
    [v EXCEPT !.hasKey = IF notFound THEN FALSE ELSE @,
              !.alerts = @ + 1,
              !.isGenerating = FALSE, !.statusMessage = "", !.phase = "none"]

\* The loop of lines 55-60 at its test, and what follows it (lines 62-73,
\* 83-86), with the operation just received: done or not, with a video URI or
\* without.
afterOperation(v, done, uri) ==
    IF ~done
    THEN [v EXCEPT !.statusMessage = loadingMessages[(v.msgIdx % 5) + 1],
                   !.msgIdx = @ + 1, !.phase = "waiting"]
    ELSE IF uri
    THEN [v EXCEPT !.results = <<v.started>> \o @,
                   !.isGenerating = FALSE, !.statusMessage = "",
                   !.phase = "none"]
    ELSE catchFinally(v, FALSE)

\* generateVideos resolves, line 36.
VideoStarted(done, uri) ==
    /\ video.phase = "starting"
    /\ video' = afterOperation(video, done, uri)
    /\ UNCHANGED <<live, currentView, image, chat>>

\* The 10-second timer of line 58 fires and getVideosOperation is called.
VideoTimeout ==
    /\ video.phase = "waiting"
    /\ video' = [video EXCEPT !.phase = "polling"]
    /\ UNCHANGED <<live, currentView, image, chat>>

\* getVideosOperation resolves, line 59.
VideoPolled(done, uri) ==
    /\ video.phase = "polling"
    /\ video' = afterOperation([video EXCEPT !.polls = @ + 1], done, uri)
    /\ UNCHANGED <<live, currentView, image, chat>>

\* generateVideos or getVideosOperation rejects: lines 75-86.
VideoCallFail(notFound) ==
    /\ video.phase \in {"starting", "polling"}
    /\ video' = catchFinally(video, notFound)
    /\ UNCHANGED <<live, currentView, image, chat>>

\* What a generation in progress does next.  The operation reports done
\* after at most MaxPolls polls that found it not done.
VideoProgress ==
    \/ \E done, uri \in BOOLEAN : VideoStarted(done, uri)
    \/ VideoTimeout
    \/ \E done, uri \in BOOLEAN :
          (done \/ video.polls < MaxPolls) /\ VideoPolled(done, uri)
    \/ \E notFound \in BOOLEAN : VideoCallFail(notFound)

NextVideo ==
    \/ \E selected \in BOOLEAN : VideoCheckKey(selected)
    \/ VideoOpenKeyDialog
    \/ \E text \in Texts : VideoSetPrompt(text)
    \/ video.started < MaxVideoRequests /\ VideoGenerate
    \/ \E done, uri \in BOOLEAN : VideoStarted(done, uri)
    \/ VideoTimeout
    \/ \E done, uri \in BOOLEAN :
          (done \/ video.polls < MaxPolls) /\ VideoPolled(done, uri)
    \/ \E notFound \in BOOLEAN : VideoCallFail(notFound)

SpecVideo == InitVideo /\ [][NextVideo]_vars

\* The calls and the timer of a generation settle; the user owes nothing.
SpecVideoFair == SpecVideo /\ WF_vars(VideoProgress)

\* A step that ends a generation.
VideoExit == video.phase # "none" /\ video'.phase = "none"

\* C37: video generation is guarded and ends cleanly.  handleGenerate is a
\* no-op while a generation is in progress; the results change only when a
\* generation ends with a video URI, by exactly one result put in front; a
\* generation that ends otherwise reports an error; every exit resets
\* isGenerating and clears the status message; and a generation in progress
\* ends, the operation reporting done or a call failing.
C37_GenerationEndsCleanly ==
    /\ [][/\ (video.isGenerating /\ VideoGenerate) => video' = video
          /\ video.isGenerating <=> video.phase # "none"
          /\ VideoExit
                => /\ ~video'.isGenerating
                   /\ video'.statusMessage = ""
                   /\ \/ /\ video'.results = <<video.started>> \o video.results
                         /\ video'.alerts = video.alerts
                      \/ /\ video'.results = video.results
                         /\ video'.alerts = video.alerts + 1
          /\ ~VideoExit => video'.results = video.results]_vars
    /\ (video.isGenerating ~> ~video.isGenerating)

\* One generation has put its result in front, and a second one has ended
\* with an error after two polls; nothing is in progress.
C37_Witness ==
    /\ video.started = 2
    /\ video.results = <<1>>
    /\ video.alerts = 1
    /\ video.polls = 2
    /\ video.msgIdx = 2
    /\ ~video.isGenerating
    /\ video.statusMessage = ""
    /\ video.phase = "none"

====
